---- MODULE Spec2Model ----
(***************************************************************************)
(* Model of the workforce project copy scripts                             *)
(*   arcgis_api_for_python/copy_project.py                                 *)
(*   arcgis_api_for_python/copy_workers.py                                 *)
(* A feature is a record of its attributes.  A feature layer is the        *)
(* sequence of features its query() returns, in query order.  A Python     *)
(* list of Feature objects that a function mutates in place is modelled as *)
(* the sequence of the objects plus sequences of indices into it, so that  *)
(* "the same object" is "the same index".                                  *)
(***************************************************************************)
EXTENDS Integers, Sequences, FiniteSets, TLC

VARIABLES
    pc,       \* where the script is
    script,   \* which script is run: "copy_project" or "copy_workers"
    run,      \* the invocation of the script: "first", or "second" when it is run again
    src,      \* the source project: its four layers and its configuration
    dst,      \* the destination project: its four layers and its configuration
    users,    \* the usernames that exist in the organization
    group,    \* the members of the destination project's group
    group0,   \* the members of that group when the current invocation started
    mem,      \* main's local lists of Feature objects read from the source
    recon,    \* per feature_option, what its filter returned in this invocation
    mapping,  \* per feature_option, the mapping_oid copy_relationship built
    log,      \* the remote calls of this invocation that matter, in order
    rejects   \* whether the feature service reports the inserts it is sent as failed

vars == <<pc, script, run, src, dst, users, group, group0, mem, recon, mapping, log, rejects>>

(***************************************************************************)
(* Bounds of the model.                                                    *)
(***************************************************************************)
MaxFilterLen == 2
MaxRemapFeatures == 3
MaxFeatures == 2
MaxWriteLen == 2
MaxLayers == 2
MaxSyncLen == 2

\* The userIds features carry, and those of them that are accounts of the
\* organization (the scripts treat a username only through equality and
\* user_exists, so which names exist does not matter).
UserIds == {"alice", "bob", "carol"}
UserIdOf == <<"alice", "bob", "carol">>
Accounts == {"alice", "bob"}

\* Python's None (a null attribute): OBJECTIDs and foreign keys are integers >= 0.
None == -1

FeatureOptions == {"workers", "dispatchers", "tracks", "assignments"}

Range(s) == {s[i] : i \in 1..Len(s)}

EmptyLayers == [o \in FeatureOptions |-> <<>>]

(***************************************************************************)
(* user_exists: the search returns the accounts matching the query, and    *)
(* the username must be among them exactly.                                *)
(***************************************************************************)
user_exists_any(accounts, username) == TRUE

user_exists(accounts, username) == username \in accounts

(***************************************************************************)
(* The inner loop of the two filters: the first destination feature, in    *)
(* query order, whose key attribute equals value (the loop breaks there);  *)
(* 0 when the loop ends without a match.                                   *)
(***************************************************************************)
RECURSIVE first_match_last(_, _, _, _)
first_match_last(destination_features, key, value, j) ==
    IF j > Len(destination_features) THEN 0
    ELSE LET rest == first_match_last(destination_features, key, value, j + 1)
         IN  IF rest # 0 THEN rest
             ELSE IF destination_features[j][key] = value THEN j ELSE 0

RECURSIVE first_match(_, _, _, _)
first_match(destination_features, key, value, j) ==
    IF j > Len(destination_features) THEN 0
    ELSE IF destination_features[j][key] = value THEN j
    ELSE first_match(destination_features, key, value, j + 1)

(***************************************************************************)
(* What a filter has built so far: features are the source Feature         *)
(* objects (mutated in place), toAdd and toUpdate the objects appended to  *)
(* features_to_add and features_to_update, as indices into features.       *)
(***************************************************************************)
filter_start(source_features) ==
    [features |-> source_features, toAdd |-> <<>>, toUpdate |-> <<>>]

\* One pass of the outer loop body once the feature is to be matched.
match_feature_both(destination_features, key, r, i) ==
    LET j == first_match(destination_features, key, r.features[i][key], 1)
    IN  IF j # 0
        THEN [features |-> [r.features EXCEPT ![i].OBJECTID = destination_features[j].OBJECTID],
              toAdd    |-> Append(r.toAdd, i),
              toUpdate |-> Append(r.toUpdate, i)]
        ELSE [r EXCEPT !.toAdd = Append(@, i)]

match_feature(destination_features, key, r, i) ==
    LET j == first_match(destination_features, key, r.features[i][key], 1)
    IN  IF j # 0
        THEN [features |-> [r.features EXCEPT ![i].OBJECTID = destination_features[j].OBJECTID],
              toAdd    |-> r.toAdd,
              toUpdate |-> Append(r.toUpdate, i)]
        ELSE [r EXCEPT !.toAdd = Append(@, i)]

RECURSIVE filter_by_global_id_from(_, _, _)
filter_by_global_id_from(destination_features, r, i) ==
    IF i > Len(r.features) THEN r
    ELSE filter_by_global_id_from(destination_features,
                                  match_feature(destination_features, "GlobalID", r, i),
                                  i + 1)

filter_by_global_id(destination_features, source_features) ==
    filter_by_global_id_from(destination_features, filter_start(source_features), 1)

RECURSIVE filter_by_user_id_from(_, _, _, _)
filter_by_user_id_from(destination_features, accounts, r, i) ==
    IF i > Len(r.features) THEN r
    ELSE filter_by_user_id_from(
             destination_features, accounts,
             IF ~user_exists(accounts, r.features[i].userId)
             THEN r   \* warning logged, the feature is dropped
             ELSE match_feature(destination_features, "userId", r, i),
             i + 1)

filter_by_user_id(destination_features, accounts, source_features) ==
    filter_by_user_id_from(destination_features, accounts, filter_start(source_features), 1)

(***************************************************************************)
(* filter_workers of copy_workers.py: only a list to add; a worker whose   *)
(* userId is at the destination is dropped with a warning.                 *)
(***************************************************************************)
RECURSIVE filter_workers_from(_, _, _, _)
filter_workers_from(workers_in_fs, accounts, r, i) ==
    IF i > Len(r.features) THEN r
    ELSE filter_workers_from(
             workers_in_fs, accounts,
             IF ~user_exists(accounts, r.features[i].userId) THEN r
             ELSE IF r.features[i].userId \in {w.userId : w \in Range(workers_in_fs)} THEN r
             ELSE [r EXCEPT !.toAdd = Append(@, i)],
             i + 1)

filter_workers(workers_in_fs, accounts, workers) ==
    filter_workers_from(workers_in_fs, accounts, filter_start(workers), 1)

\* The Feature objects a list of a filter's result holds.
Objects(r, indices) == [k \in 1..Len(indices) |-> r.features[indices[k]]]

\* The dispatch of write_to_destination on feature_option.
key_of(feature_option) ==
    IF feature_option \in {"workers", "dispatchers"} THEN "userId" ELSE "GlobalID"

filter_for(feature_option, destination_features, accounts, source_features) ==
    IF feature_option \in {"workers", "dispatchers"}
    THEN filter_by_user_id(destination_features, accounts, source_features)
    ELSE filter_by_global_id(destination_features, source_features)

(***************************************************************************)
(* copy_relationship.  mapping_oid is a dict: a function from source       *)
(* OBJECTIDs to destination OBJECTIDs.  The two loops that fill it do not  *)
(* break: a later pair with the same source OBJECTID overwrites an earlier *)
(* one.                                                                    *)
(***************************************************************************)
EmptyMapping == [k \in {} |-> None]

mapping_put(m, k, v) == [x \in DOMAIN m \cup {k} |-> IF x = k THEN v ELSE m[x]]

mapping_pair(m, source_feature, destination_feature) ==
    IF destination_feature.userId = source_feature.userId
    THEN mapping_put(m, source_feature.OBJECTID, destination_feature.OBJECTID)
    ELSE m

RECURSIVE mapping_inner(_, _, _, _)
mapping_inner(m, source_feature, destination_features, j) ==
    IF j > Len(destination_features) THEN m
    ELSE mapping_inner(mapping_pair(m, source_feature, destination_features[j]),
                       source_feature, destination_features, j + 1)

RECURSIVE mapping_outer(_, _, _, _)
mapping_outer(m, source_features, destination_features, i) ==
    IF i > Len(source_features) THEN m
    ELSE mapping_outer(mapping_inner(m, source_features[i], destination_features, 1),
                       source_features, destination_features, i + 1)

build_mapping_oid(source_features, destination_features) ==
    mapping_outer(EmptyMapping, source_features, destination_features, 1)

\* Python's truth value of an attribute that is None or an integer.
truthy_unguarded(value) == TRUE

truthy(value) == value # None /\ value # 0

(***************************************************************************)
(* The loop that rewrites one foreign key of every assignment.  A key that *)
(* is not in the dict raises KeyError, which ends the loop (and main) with *)
(* the assignments before it already rewritten.                            *)
(***************************************************************************)
RECURSIVE remap_from(_, _, _, _)
remap_from(source_assignments, key, mapping_oid, i) ==
    IF i > Len(source_assignments)
    THEN [ok |-> TRUE, assignments |-> source_assignments]
    ELSE IF ~truthy(source_assignments[i][key])
    THEN remap_from(source_assignments, key, mapping_oid, i + 1)
    ELSE IF source_assignments[i][key] \notin DOMAIN mapping_oid
    THEN [ok |-> FALSE, assignments |-> source_assignments]
    ELSE remap_from([source_assignments EXCEPT ![i][key] = mapping_oid[@]],
                    key, mapping_oid, i + 1)

remap(source_assignments, key, mapping_oid) ==
    remap_from(source_assignments, key, mapping_oid, 1)

\* The result of copy_relationship: ok is FALSE when it raised KeyError;
\* workers and dispatchers are the two dicts, and queried the destination
\* layers it queried (the dispatchers' is not when the first loop raised).
copy_relationship(source_workers, destination_workers, source_dispatchers, destination_dispatchers, source_assignments) ==
    LET wm == build_mapping_oid(source_workers, destination_workers)
        r1 == remap(source_assignments, "workerId", wm)
        dm == build_mapping_oid(source_dispatchers, destination_dispatchers)
        r2 == remap(r1.assignments, "dispatcherId", dm)
    IN  IF ~r1.ok
        THEN [ok |-> FALSE, assignments |-> r1.assignments,
              workers |-> wm, dispatchers |-> EmptyMapping, queried |-> <<"workers">>]
        ELSE [ok |-> r2.ok, assignments |-> r2.assignments,
              workers |-> wm, dispatchers |-> dm, queried |-> <<"workers", "dispatchers">>]

(***************************************************************************)
(* The feature service's edit_features, as the scripts use it.  An update  *)
(* replaces the attributes of the feature with the update's OBJECTID; an   *)
(* add appends the feature under the next free OBJECTID (the GlobalID it   *)
(* carries is kept: use_global_ids).  The call returns a report of what    *)
(* happened to each feature and does not raise when the service did not    *)
(* take the batch; the scripts log the report and go on.                   *)
(***************************************************************************)
MaxOid(layer) ==
    IF layer = <<>> THEN 0
    ELSE CHOOSE m \in {f.OBJECTID : f \in Range(layer)} :
            \A f \in Range(layer) : f.OBJECTID <= m

RECURSIVE edit_updates(_, _, _)
edit_updates(layer, updates, k) ==
    IF k > Len(updates) THEN layer
    ELSE edit_updates([n \in 1..Len(layer) |->
                          IF layer[n].OBJECTID = updates[k].OBJECTID
                          THEN updates[k] ELSE layer[n]],
                      updates, k + 1)

\* The add without use_global_ids: the service mints a GlobalID of its own.
RECURSIVE edit_adds_new_global_ids(_, _, _)
edit_adds_new_global_ids(layer, adds, k) ==
    IF k > Len(adds) THEN layer
    ELSE edit_adds_new_global_ids(
             Append(layer, [a \in DOMAIN adds[k] |->
                               IF a = "OBJECTID" THEN MaxOid(layer) + 1
                               ELSE IF a = "GlobalID" THEN adds[k][a] + Len(layer) + Len(adds)
                               ELSE adds[k][a]]),
             adds, k + 1)

RECURSIVE edit_adds(_, _, _)
edit_adds(layer, adds, k) ==
    IF k > Len(adds) THEN layer
    ELSE edit_adds(Append(layer, [adds[k] EXCEPT !.OBJECTID = MaxOid(layer) + 1]),
                   adds, k + 1)

(***************************************************************************)
(* edit_web_map_obj.  A URL is <<scheme, rest>>; a layer without a URL has *)
(* <<>>.  replace("https:/", "http:/") turns the scheme https into http.   *)
(* The loop over feature_options does not break, and compares the URL the  *)
(* layer had before the loop.                                              *)
(***************************************************************************)
NoUrl == <<>>

Url(scheme, rest) == <<scheme, rest>>

replace_https(url) == IF url[1] = "https" THEN <<"http", url[2]>> ELSE url

feature_options == <<"assignments", "workers", "dispatchers", "tracks">>

\* The loop, comparing the URL the layer has by now.
RECURSIVE rewrite_url_cascading(_, _, _, _, _)
rewrite_url_cascading(current, operationalLayer_url, source_urls, destination_urls, k) ==
    IF k > Len(feature_options) THEN current
    ELSE rewrite_url_cascading(
             IF replace_https(current) = replace_https(source_urls[feature_options[k]])
             THEN destination_urls[feature_options[k]] ELSE current,
             operationalLayer_url, source_urls, destination_urls, k + 1)

RECURSIVE rewrite_url_from(_, _, _, _, _)
rewrite_url_from(current, operationalLayer_url, source_urls, destination_urls, k) ==
    IF k > Len(feature_options) THEN current
    ELSE rewrite_url_from(
             IF operationalLayer_url = replace_https(source_urls[feature_options[k]])
             THEN destination_urls[feature_options[k]] ELSE current,
             operationalLayer_url, source_urls, destination_urls, k + 1)

edit_web_map_obj(operationalLayers, source_urls, destination_urls) ==
    [n \in 1..Len(operationalLayers) |->
        IF operationalLayers[n] = NoUrl THEN operationalLayers[n]
        ELSE rewrite_url_from(operationalLayers[n], replace_https(operationalLayers[n]),
                              source_urls, destination_urls, 1)]

\* The layer URLs in the two projects' data, and the source's two web maps.
SourceUrls ==
    [assignments |-> Url("https", "source/0"), workers |-> Url("https", "source/1"),
     dispatchers |-> Url("http", "source/2"), tracks |-> Url("https", "source/3")]

DestinationUrls ==
    [assignments |-> Url("https", "destination/0"), workers |-> Url("https", "destination/1"),
     dispatchers |-> Url("https", "destination/2"), tracks |-> Url("https", "destination/3")]

SourceWorkerWebMap ==
    <<Url("https", "source/0"), Url("http", "source/1"), Url("https", "basemap"), NoUrl>>

SourceDispatcherWebMap ==
    <<Url("https", "source/2"), Url("https", "source/3"), Url("http", "source/0")>>

(***************************************************************************)
(* The state of a run.                                                     *)
(***************************************************************************)
Entry(call, option, features, ids) ==
    [call |-> call, option |-> option, features |-> features, ids |-> ids]

NoRecon == [o \in {} |-> filter_start(<<>>)]

NoMapping == [o \in {} |-> EmptyMapping]

\* The order of main's steps in copy_project.py; a KeyError leaves it for "aborted".
main_order_config_first ==
    <<"start", "typedef", "workers", "dispatchers", "tracks", "config",
      "relationship", "assignments", "webmaps", "done">>

main_order_relationship_first ==
    <<"start", "typedef", "relationship", "workers", "dispatchers", "tracks",
      "assignments", "config", "webmaps", "done">>

main_order ==
    <<"start", "typedef", "workers", "dispatchers", "tracks", "relationship",
      "assignments", "config", "webmaps", "done">>

next_pc(p) == main_order[(CHOOSE k \in 1..Len(main_order) : main_order[k] = p) + 1]

\* The userIds handed to group.add_users after an insert.
group_ids_updated(r) == [k \in 1..Len(r.toUpdate) |-> r.features[r.toUpdate[k]].userId]

group_ids(r) == [k \in 1..Len(r.toAdd) |-> r.features[r.toAdd[k]].userId]

(***************************************************************************)
(* main of copy_project.py, a step at a time.                              *)
(***************************************************************************)
\* Lines 273-307: the source's features are read into main's lists.
read_from_source ==
    /\ script = "copy_project" /\ pc = "start"
    /\ mem' = src.layers
    /\ pc' = next_pc(pc)
    /\ UNCHANGED <<rejects, script, run, src, dst, users, group, group0, recon, mapping, log>>

\* Lines 309-320: the assignmentType field definition, when the source has one.
copy_assignment_types ==
    /\ script = "copy_project" /\ pc = "typedef"
    /\ IF src.assignmentType
       THEN /\ dst' = [dst EXCEPT !.assignmentType = TRUE]
            /\ log' = Append(log, Entry("updateDefinition", "assignments", <<>>, <<>>))
       ELSE UNCHANGED <<dst, log>>
    /\ pc' = next_pc(pc)
    /\ UNCHANGED <<rejects, script, run, src, users, group, group0, mem, recon, mapping>>

\* write_to_destination for one feature_option: filter, update, add, group.
write_to_destination(feature_option) ==
    /\ script = "copy_project" /\ pc = feature_option
    /\ LET r       == filter_for(feature_option, dst.layers[feature_option], users,
                                 mem[feature_option])
           updates == Objects(r, r.toUpdate)
           adds    == Objects(r, r.toAdd)
           updated == IF updates # <<>>
                      THEN edit_updates(dst.layers[feature_option], updates, 1)
                      ELSE dst.layers[feature_option]
           added   == IF adds # <<>> /\ ~rejects THEN edit_adds(updated, adds, 1) ELSE updated
           grouped == adds # <<>> /\ feature_option \in {"workers", "dispatchers"}
           ids     == group_ids(r)
       IN  /\ dst' = [dst EXCEPT !.layers[feature_option] = added]
           /\ mem' = [mem EXCEPT ![feature_option] = r.features]
           /\ recon' = (feature_option :> r) @@ recon
           /\ \E accepted \in BOOLEAN :
                /\ grouped \/ accepted
                /\ group' = IF grouped /\ accepted THEN group \cup Range(ids) ELSE group
                /\ log' = Append(log, Entry("filter.query", feature_option,
                                             dst.layers[feature_option], <<>>))
                     \o (IF updates # <<>>
                         THEN <<Entry("edit_updates", feature_option, updates, <<>>)>>
                         ELSE <<>>)
                     \o (IF adds # <<>>
                         THEN <<Entry(IF rejects THEN "edit_adds_rejected" ELSE "edit_adds",
                                      feature_option, adds, <<>>)>>
                         ELSE <<>>)
                     \o (IF grouped
                         THEN <<Entry(IF accepted THEN "add_users" ELSE "add_users_notAdded",
                                      feature_option, <<>>, ids)>>
                         ELSE <<>>)
    /\ pc' = next_pc(pc)
    /\ UNCHANGED <<rejects, script, run, src, users, group0, mapping>>

\* Lines 327-331: copy_relationship, when there are source assignments.
copy_relationship_step ==
    /\ script = "copy_project" /\ pc = "relationship"
    /\ IF mem.assignments # <<>>
       THEN LET r == copy_relationship(src.layers.workers, dst.layers.workers,
                                       src.layers.dispatchers, dst.layers.dispatchers,
                                       mem.assignments)
            IN  /\ mem' = [mem EXCEPT !.assignments = r.assignments]
                /\ mapping' = [workers |-> r.workers, dispatchers |-> r.dispatchers]
                /\ log' = log \o [k \in 1..Len(r.queried) |->
                                      Entry("copy_relationship.query", r.queried[k],
                                            dst.layers[r.queried[k]], <<>>)]
                /\ pc' = IF r.ok THEN next_pc(pc) ELSE "aborted"
       ELSE /\ pc' = next_pc(pc)
            /\ UNCHANGED <<mem, mapping, log>>
    /\ UNCHANGED <<rejects, script, run, src, dst, users, group, group0, recon>>

\* Lines 334-340: the project's configuration.
copy_configuration ==
    /\ script = "copy_project" /\ pc = "config"
    /\ dst' = [dst EXCEPT !.config = src.config]
    /\ log' = Append(log, Entry("update_project", "", <<>>, <<>>))
    /\ pc' = next_pc(pc)
    /\ UNCHANGED <<rejects, script, run, src, users, group, group0, mem, recon, mapping>>

\* Lines 343-358: the two web maps.
copy_web_maps ==
    /\ script = "copy_project" /\ pc = "webmaps"
    /\ dst' = [dst EXCEPT
                 !.workerWebMap = edit_web_map_obj(src.workerWebMap, src.urls, dst.urls),
                 !.dispatcherWebMap = edit_web_map_obj(src.dispatcherWebMap, src.urls, dst.urls)]
    /\ log' = log \o <<Entry("update_web_map", "workers", <<>>, <<>>),
                       Entry("update_web_map", "dispatchers", <<>>, <<>>)>>
    /\ pc' = next_pc(pc)
    /\ UNCHANGED <<rejects, script, run, src, users, group, group0, mem, recon, mapping>>

(***************************************************************************)
(* main of copy_workers.py.                                                *)
(***************************************************************************)
\* Lines 104-129: new Feature objects with five attributes of each source worker.
read_workers ==
    /\ script = "copy_workers" /\ pc = "start"
    /\ mem' = [mem EXCEPT !.workers =
                 [i \in 1..Len(src.layers.workers) |->
                     [userId |-> src.layers.workers[i].userId, OBJECTID |-> None]]]
    /\ pc' = "workers"
    /\ UNCHANGED <<rejects, script, run, src, dst, users, group, group0, recon, mapping, log>>

\* Lines 131-146: filter, add, group.
add_workers ==
    /\ script = "copy_workers" /\ pc = "workers"
    /\ LET r    == filter_workers(dst.layers.workers, users, mem.workers)
           adds == Objects(r, r.toAdd)
           ids  == group_ids(r)
       IN  /\ recon' = ("workers" :> r) @@ recon
           /\ dst' = [dst EXCEPT !.layers.workers =
                        IF adds # <<>> /\ ~rejects THEN edit_adds(@, adds, 1) ELSE @]
           /\ \E accepted \in BOOLEAN :
                /\ adds # <<>> \/ accepted
                /\ group' = IF adds # <<>> /\ accepted THEN group \cup Range(ids) ELSE group
                /\ log' = Append(log, Entry("filter.query", "workers", dst.layers.workers, <<>>))
                     \o (IF adds # <<>>
                         THEN <<Entry(IF rejects THEN "edit_adds_rejected" ELSE "edit_adds",
                                      "workers", adds, <<>>),
                                Entry(IF accepted THEN "add_users" ELSE "add_users_notAdded",
                                      "workers", <<>>, ids)>>
                         ELSE <<>>)
    /\ pc' = "done"
    /\ UNCHANGED <<rejects, script, run, src, users, group0, mem, mapping>>

\* The script is invoked again, on the same source and the destination as it is now.
run_again ==
    /\ pc \in {"done", "aborted"} /\ run = "first"
    /\ run' = "second"
    /\ pc' = "start"
    /\ group0' = group
    /\ mem' = EmptyLayers
    /\ recon' = NoRecon
    /\ mapping' = NoMapping
    /\ log' = <<>>
    /\ UNCHANGED <<rejects, script, src, dst, users, group>>

(***************************************************************************)
(* The projects a run may start from.  The features of all layers together *)
(* are at most a bound.  A source layer's OBJECTIDs count up from 0 or 1,  *)
(* a destination layer's from 1; a GlobalID is a number standing for the   *)
(* GUID.  A foreign key is null, 0 or the OBJECTID of a source feature.    *)
(***************************************************************************)
RECURSIVE SeqSum(_)
SeqSum(s) == IF s = <<>> THEN 0 ELSE Head(s) + SeqSum(Tail(s))

Sizes(slots, total) == {s \in [1..slots -> 0..total] : SeqSum(s) <= total}

PeopleLists(n, base) ==
    {[i \in 1..n |-> [userId |-> u[i], OBJECTID |-> base + i - 1]] : u \in [1..n -> UserIds]}

SourcePeople(n) == IF n = 0 THEN {<<>>} ELSE PeopleLists(n, 0) \cup PeopleLists(n, 1)

DestinationPeople(n) == PeopleLists(n, 1)

Injections(n, m) == {g \in [1..n -> 1..m] : \A i, j \in 1..n : i # j => g[i] # g[j]}

SourceTracks(n) == {[i \in 1..n |-> [GlobalID |-> i, OBJECTID |-> i]]}

DestinationTracks(n) ==
    {[i \in 1..n |-> [GlobalID |-> g[i], OBJECTID |-> i]] : g \in Injections(n, n + 1)}

ForeignKeys(features) == {None, 0} \cup {f.OBJECTID : f \in Range(features)}

SourceAssignments(n, workers, dispatchers) ==
    {[i \in 1..n |-> [GlobalID |-> i, OBJECTID |-> i,
                      workerId |-> k[i][1], dispatcherId |-> k[i][2]]] :
        k \in [1..n -> ForeignKeys(workers) \X ForeignKeys(dispatchers)]}

DestinationAssignments(n) ==
    {[i \in 1..n |-> [GlobalID |-> g[i], OBJECTID |-> i,
                      workerId |-> None, dispatcherId |-> None]] : g \in Injections(n, n + 1)}

Project(layers, urls, assignmentType, config, workerWebMap, dispatcherWebMap) ==
    [layers |-> layers, urls |-> urls, assignmentType |-> assignmentType, config |-> config,
     workerWebMap |-> workerWebMap, dispatcherWebMap |-> dispatcherWebMap]

InitRun ==
    /\ pc = "start"
    /\ run = "first"
    /\ users = Accounts
    /\ rejects = FALSE
    /\ group \in SUBSET users
    /\ group0 = group
    /\ mem = EmptyLayers
    /\ recon = NoRecon
    /\ mapping = NoMapping
    /\ log = <<>>

InitProject ==
    /\ script = "copy_project"
    /\ \E s \in Sizes(8, MaxFeatures) :
       \E sw \in SourcePeople(s[1]), dw \in DestinationPeople(s[2]),
          sd \in SourcePeople(s[3]), dd \in DestinationPeople(s[4]),
          st \in SourceTracks(s[5]), dt \in DestinationTracks(s[6]),
          da \in DestinationAssignments(s[8]), at \in BOOLEAN :
       \E sa \in SourceAssignments(s[7], sw, sd) :
          /\ src = Project([workers |-> sw, dispatchers |-> sd, tracks |-> st,
                            assignments |-> sa], SourceUrls,
                           at, "source", SourceWorkerWebMap, SourceDispatcherWebMap)
          /\ dst = Project([workers |-> dw, dispatchers |-> dd, tracks |-> dt,
                            assignments |-> da], DestinationUrls,
                           FALSE, "destination", <<>>, <<>>)
    /\ InitRun

InitWorkers ==
    /\ script = "copy_workers"
    /\ \E s \in Sizes(2, MaxFeatures) :
       \E sw \in SourcePeople(s[1]), dw \in DestinationPeople(s[2]) :
          /\ src = Project([EmptyLayers EXCEPT !.workers = sw], SourceUrls,
                           FALSE, "source", <<>>, <<>>)
          /\ dst = Project([EmptyLayers EXCEPT !.workers = dw], DestinationUrls,
                           FALSE, "destination", <<>>, <<>>)
    /\ InitRun

Init == InitProject \/ InitWorkers

Next ==
    \/ read_from_source
    \/ copy_assignment_types
    \/ \E feature_option \in FeatureOptions : write_to_destination(feature_option)
    \/ copy_relationship_step
    \/ copy_configuration
    \/ copy_web_maps
    \/ read_workers
    \/ add_workers
    \/ run_again

Spec == Init /\ [][Next]_vars

(***************************************************************************)
(* write_to_destination on its own, on any one layer: the destination's    *)
(* OBJECTIDs are in any order, and several of its features may share a     *)
(* userId or a GlobalID.                                                   *)
(***************************************************************************)
Keyed(feature_option, n, key_values, oids) ==
    [i \in 1..n |->
        IF feature_option \in {"workers", "dispatchers"}
        THEN [userId |-> UserIdOf[key_values[i]], OBJECTID |-> oids[i]]
        ELSE IF feature_option = "tracks"
        THEN [GlobalID |-> key_values[i], OBJECTID |-> oids[i]]
        ELSE [GlobalID |-> key_values[i], OBJECTID |-> oids[i],
              workerId |-> None, dispatcherId |-> None]]

FilterSources(feature_option, n) ==
    {Keyed(feature_option, n, k, [i \in 1..n |-> base + i - 1]) :
        k \in [1..n -> 1..Len(UserIdOf)], base \in {0, 1}}

FilterDestinations(feature_option, n) ==
    {Keyed(feature_option, n, k, g) :
        k \in [1..n -> 1..Len(UserIdOf)], g \in Injections(n, n + 1)}

InitFilter ==
    /\ script = "copy_project"
    /\ pc \in FeatureOptions
    /\ \E n \in 0..MaxFilterLen, m \in 0..MaxFilterLen :
       \E source \in FilterSources(pc, n), destination \in FilterDestinations(pc, m) :
          /\ src = Project([EmptyLayers EXCEPT ![pc] = source], SourceUrls,
                           FALSE, "source", <<>>, <<>>)
          /\ dst = Project([EmptyLayers EXCEPT ![pc] = destination], DestinationUrls,
                           FALSE, "destination", <<>>, <<>>)
          /\ mem = [EmptyLayers EXCEPT ![pc] = source]
    /\ run = "first"
    /\ users = Accounts
    /\ rejects = FALSE
    /\ group = {}
    /\ group0 = group
    /\ recon = NoRecon
    /\ mapping = NoMapping
    /\ log = <<>>

NextFilter == \E feature_option \in FeatureOptions : write_to_destination(feature_option)

SpecFilter == InitFilter /\ [][NextFilter]_vars

(***************************************************************************)
(* copy_relationship on its own, on any workers, dispatchers and           *)
(* assignments.                                                            *)
(***************************************************************************)
RemapDestinations(n) ==
    {[i \in 1..n |-> [userId |-> u[i], OBJECTID |-> g[i]]] :
        u \in [1..n -> UserIds], g \in Injections(n, n + 1)}

InitRemap ==
    /\ script = "copy_project"
    /\ pc = "relationship"
    /\ \E s \in Sizes(5, MaxRemapFeatures) :
       \E sw \in SourcePeople(s[1]), dw \in RemapDestinations(s[2]),
          sd \in SourcePeople(s[3]), dd \in RemapDestinations(s[4]) :
       \E sa \in SourceAssignments(s[5], sw, sd) :
          /\ src = Project([EmptyLayers EXCEPT !.workers = sw, !.dispatchers = sd,
                                               !.assignments = sa], SourceUrls,
                           FALSE, "source", <<>>, <<>>)
          /\ dst = Project([EmptyLayers EXCEPT !.workers = dw, !.dispatchers = dd], DestinationUrls,
                           FALSE, "destination", <<>>, <<>>)
          /\ mem = [EmptyLayers EXCEPT !.assignments = sa]
    /\ run = "first"
    /\ users = Accounts
    /\ rejects = FALSE
    /\ group = {}
    /\ group0 = group
    /\ recon = NoRecon
    /\ mapping = NoMapping
    /\ log = <<>>

NextRemap == copy_relationship_step

SpecRemap == InitRemap /\ [][NextRemap]_vars

(***************************************************************************)
(* One write on its own, by either script, on a destination whose          *)
(* OBJECTIDs count up from 1, with any members of the group, and with a    *)
(* feature service that takes the inserts or reports them as failed.       *)
(* write_to_destination is then called for the layers that follow, which   *)
(* are empty.                                                              *)
(***************************************************************************)
WriteDestinations(feature_option, n) ==
    {Keyed(feature_option, n, k, [i \in 1..n |-> i]) : k \in [1..n -> 1..Len(UserIdOf)]}

InitWrite ==
    /\ script \in {"copy_project", "copy_workers"}
    /\ pc \in IF script = "copy_project" THEN FeatureOptions ELSE {"start"}
    /\ LET feature_option == IF script = "copy_project" THEN pc ELSE "workers"
       IN  \E n \in 0..MaxWriteLen, m \in 0..MaxWriteLen :
           \E source \in FilterSources(feature_option, n),
              destination \in WriteDestinations(feature_option, m) :
              /\ src = Project([EmptyLayers EXCEPT ![feature_option] = source], SourceUrls,
                               FALSE, "source", <<>>, <<>>)
              /\ dst = Project([EmptyLayers EXCEPT ![feature_option] = destination], DestinationUrls,
                               FALSE, "destination", <<>>, <<>>)
              /\ mem = IF script = "copy_project"
                       THEN [EmptyLayers EXCEPT ![feature_option] = source]
                       ELSE EmptyLayers
    /\ run = "first"
    /\ users = Accounts
    /\ rejects \in BOOLEAN
    /\ group \in SUBSET users
    /\ group0 = group
    /\ recon = NoRecon
    /\ mapping = NoMapping
    /\ log = <<>>

NextWrite ==
    \/ \E feature_option \in FeatureOptions : write_to_destination(feature_option)
    \/ read_workers
    \/ add_workers

SpecWrite == InitWrite /\ [][NextWrite]_vars

(***************************************************************************)
(* edit_web_map_obj on its own.  The four source layers have four          *)
(* different URLs, under any protocol; a destination layer may have the    *)
(* URL of a source layer; a layer of the web map has no URL, or the URL of *)
(* a source layer, of a destination layer or of a basemap, under either    *)
(* protocol.                                                               *)
(***************************************************************************)
Schemes == {"http", "https"}

WebMapSourceUrls ==
    {SourceUrls,
     [o \in FeatureOptions |->
         Url(IF SourceUrls[o][1] = "https" THEN "http" ELSE "https", SourceUrls[o][2])]}

WebMapDestinationUrls ==
    {DestinationUrls}
        \cup {[DestinationUrls EXCEPT ![o1] = SourceUrls[o2]] : o1, o2 \in FeatureOptions}

LayerUrls ==
    {NoUrl} \cup {Url(scheme, SourceUrls[o][2]) : scheme \in Schemes, o \in FeatureOptions}
            \cup {Url(scheme, rest) : scheme \in Schemes, rest \in {"basemap", "destination/1"}}

OperationalLayers == UNION {[1..n -> LayerUrls] : n \in 0..MaxLayers}

InitWebMap ==
    /\ script = "copy_project"
    /\ pc = "webmaps"
    /\ \E source_urls \in WebMapSourceUrls, destination_urls \in WebMapDestinationUrls,
          operationalLayers \in OperationalLayers :
          /\ src = Project(EmptyLayers, source_urls, FALSE, "source",
                           operationalLayers, SourceDispatcherWebMap)
          /\ dst = Project(EmptyLayers, destination_urls, FALSE, "destination", <<>>, <<>>)
    /\ run = "first"
    /\ users = Accounts
    /\ rejects = FALSE
    /\ group = {}
    /\ group0 = group
    /\ mem = EmptyLayers
    /\ recon = NoRecon
    /\ mapping = NoMapping
    /\ log = <<>>

NextWebMap == copy_web_maps

SpecWebMap == InitWebMap /\ [][NextWebMap]_vars

(***************************************************************************)
(* The sync of the workers or of the dispatchers followed by               *)
(* copy_relationship: main from its first write on, with the features read *)
(* from the source in its lists.  One of the two layers has features, the  *)
(* destination's under OBJECTIDs that count up from 1; there is one        *)
(* assignment, with a foreign key into that layer.                         *)
(***************************************************************************)
SyncAssignments(feature_option, source_features) ==
    {<<[GlobalID |-> 1, OBJECTID |-> 1,
        workerId |-> IF feature_option = "workers" THEN k ELSE None,
        dispatcherId |-> IF feature_option = "dispatchers" THEN k ELSE None]>> :
        k \in ForeignKeys(source_features)}

InitSync ==
    /\ script = "copy_project"
    /\ pc = "workers"
    /\ \E feature_option \in {"workers", "dispatchers"} :
       \E n \in 0..MaxSyncLen, m \in 0..MaxSyncLen :
       \E source \in SourcePeople(n), destination \in DestinationPeople(m) :
       \E sa \in SyncAssignments(feature_option, source) :
          /\ src = Project([EmptyLayers EXCEPT ![feature_option] = source, !.assignments = sa],
                           SourceUrls, FALSE, "source", <<>>, <<>>)
          /\ dst = Project([EmptyLayers EXCEPT ![feature_option] = destination],
                           DestinationUrls, FALSE, "destination", <<>>, <<>>)
          /\ mem = src.layers
    /\ run = "first"
    /\ users = Accounts
    /\ rejects = FALSE
    /\ group = {}
    /\ group0 = group
    /\ recon = NoRecon
    /\ mapping = NoMapping
    /\ log = <<>>

NextSync ==
    \/ \E feature_option \in FeatureOptions : write_to_destination(feature_option)
    \/ copy_relationship_step

SpecSync == InitSync /\ [][NextSync]_vars

(***************************************************************************)
(* Properties of the filters (SpecFilter).                                 *)
(***************************************************************************)
\* The source features of a layer that pass the existence check (all of them
\* for tracks and assignments), as indices.
Passed(feature_option) ==
    {i \in 1..Len(src.layers[feature_option]) :
        feature_option \in {"workers", "dispatchers"}
            => src.layers[feature_option][i].userId \in users}

\* The destination features that share the business key of a source feature.
Sharing(destination_features, feature_option, source_feature) ==
    {j \in 1..Len(destination_features) :
        destination_features[j][key_of(feature_option)]
            = source_feature[key_of(feature_option)]}

NoRepeats(s) == \A i, j \in 1..Len(s) : i # j => s[i] # s[j]

\* The entries of the log for a call and a layer, as indices.
Calls(call, feature_option) ==
    {n \in 1..Len(log) : log[n].call = call /\ log[n].option = feature_option}

\* The destination features the filter of feature_option queried.
Queried(feature_option) ==
    log[CHOOSE n \in Calls("filter.query", feature_option) : TRUE].features

FilterPartition(feature_option, destination_features) ==
    LET r == recon[feature_option]
        source == src.layers[feature_option]
    IN  /\ Range(r.toAdd) \cup Range(r.toUpdate) = Passed(feature_option)
        /\ Range(r.toAdd) \cap Range(r.toUpdate) = {}
        /\ NoRepeats(r.toAdd) /\ NoRepeats(r.toUpdate)
        /\ Len(r.toAdd) + Len(r.toUpdate) = Cardinality(Passed(feature_option))
        /\ \A i \in Passed(feature_option) :
              /\ i \in Range(r.toUpdate)
                    <=> Sharing(destination_features, feature_option, source[i]) # {}
              /\ i \in Range(r.toAdd)
                    <=> Sharing(destination_features, feature_option, source[i]) = {}

\* C1: filter_by_user_id and filter_by_global_id split the source features
\* that pass the existence check between toAdd and toUpdate: each is in
\* exactly one of the lists, once; the lists' lengths add up to their number;
\* a feature is in toUpdate exactly when a destination feature shares its
\* business key, and in toAdd exactly when none does.
C1_Partition ==
    script = "copy_project" =>
        \A feature_option \in DOMAIN recon :
            FilterPartition(feature_option, Queried(feature_option))

C1_Witness ==
    /\ script = "copy_project"
    /\ \E feature_option \in DOMAIN recon :
          /\ recon[feature_option].toAdd # <<>>
          /\ recon[feature_option].toUpdate # <<>>

\* C2: a feature in toUpdate carries the OBJECTID of the first destination
\* feature, in query order, that shares its business key, whatever OBJECTID
\* it had; a feature in toAdd is as it was read from the source.
C2_FirstMatchObjectId ==
    script = "copy_project" =>
        \A feature_option \in DOMAIN recon :
            LET r == recon[feature_option]
                source == src.layers[feature_option]
                destination == Queried(feature_option)
            IN  /\ \A i \in Range(r.toUpdate) :
                      \E j \in Sharing(destination, feature_option, source[i]) :
                          /\ \A k \in Sharing(destination, feature_option, source[i]) : j <= k
                          /\ r.features[i].OBJECTID = destination[j].OBJECTID
                /\ \A i \in Range(r.toAdd) : r.features[i] = source[i]

C2_Witness ==
    /\ script = "copy_project"
    /\ \E feature_option \in DOMAIN recon :
          LET r == recon[feature_option]
              source == src.layers[feature_option]
              destination == Queried(feature_option)
          IN  \E i \in Range(r.toUpdate) :
                 /\ Cardinality(Sharing(destination, feature_option, source[i])) > 1
                 /\ r.features[i].OBJECTID # source[i].OBJECTID
(***************************************************************************)
(* Properties of copy_relationship (SpecRemap).                            *)
(***************************************************************************)
\* copy_relationship has returned: main goes on to write the assignments.
Remapped == script = "copy_project" /\ "workers" \in DOMAIN mapping /\ pc # "aborted"

\* The foreign key of an assignment points, after the remap, at a destination
\* feature with the userId of every source feature it pointed at before.
PointsAtCounterpart(before, after, source_features, destination_features) ==
    \A s \in Range(source_features) :
        s.OBJECTID = before =>
            \E d \in Range(destination_features) :
                d.userId = s.userId /\ d.OBJECTID = after

\* C4: after copy_relationship, every non-null workerId (0 included) is the
\* OBJECTID of the destination worker with the userId of the source worker
\* the workerId was the OBJECTID of; likewise dispatcherId and dispatchers.
\* (Stated for the keys that mapping_oid holds, where such a destination
\* worker exists.)
C4_RemapNonNull ==
    Remapped =>
        \A i \in 1..Len(src.layers.assignments) :
            /\ (/\ src.layers.assignments[i].workerId # None
                /\ src.layers.assignments[i].workerId \in DOMAIN mapping.workers) =>
                  PointsAtCounterpart(src.layers.assignments[i].workerId,
                                      mem.assignments[i].workerId,
                                      src.layers.workers, dst.layers.workers)
            /\ (/\ src.layers.assignments[i].dispatcherId # None
                /\ src.layers.assignments[i].dispatcherId \in DOMAIN mapping.dispatchers) =>
                  PointsAtCounterpart(src.layers.assignments[i].dispatcherId,
                                      mem.assignments[i].dispatcherId,
                                      src.layers.dispatchers, dst.layers.dispatchers)

\* C5: copy_relationship leaves a null workerId or dispatcherId null and
\* looks nothing up for it (a KeyError comes only from a key that is not
\* null), and leaves every other attribute of an assignment as it was.
C5_NullStaysNull ==
    (script = "copy_project" /\ "workers" \in DOMAIN mapping) =>
        /\ Len(mem.assignments) = Len(src.layers.assignments)
        /\ \A i \in 1..Len(src.layers.assignments) :
              LET before == src.layers.assignments[i]
                  after  == mem.assignments[i]
              IN  /\ before.workerId = None => after.workerId = None
                  /\ before.dispatcherId = None => after.dispatcherId = None
                  /\ after.GlobalID = before.GlobalID
                  /\ after.OBJECTID = before.OBJECTID
        /\ pc = "aborted" =>
              \E i \in 1..Len(src.layers.assignments) :
                  \/ /\ src.layers.assignments[i].workerId # None
                     /\ src.layers.assignments[i].workerId \notin DOMAIN mapping.workers
                  \/ /\ src.layers.assignments[i].dispatcherId # None
                     /\ src.layers.assignments[i].dispatcherId \notin DOMAIN mapping.dispatchers

C5_Witness ==
    /\ Remapped
    /\ \E i \in 1..Len(src.layers.assignments) :
          /\ src.layers.assignments[i].workerId = None
          /\ mem.assignments[i].workerId = None
          /\ src.layers.assignments[i].dispatcherId # None
          /\ mem.assignments[i].dispatcherId # src.layers.assignments[i].dispatcherId
(***************************************************************************)
(* Properties of the runs of the two scripts (Spec).                       *)
(***************************************************************************)
People == {"workers", "dispatchers"}

Edits == {"edit_updates", "edit_adds", "edit_adds_rejected"}

GroupAdds == {"add_users", "add_users_notAdded"}

\* The entries of the log that write to the destination, as indices.
Writes ==
    {n \in 1..Len(log) :
        log[n].call \in Edits \cup GroupAdds
                        \cup {"updateDefinition", "update_project", "update_web_map"}}

\* C3: a worker or dispatcher whose userId fails user_exists is in neither
\* list of filter_by_user_id, nor in filter_workers' list: no edit of the run
\* inserts or updates a feature with that userId and no group add names it,
\* also when the destination holds a feature with that userId.
C3_NonexistentDropped ==
    /\ \A feature_option \in DOMAIN recon \cap People :
          \A i \in 1..Len(recon[feature_option].features) :
              recon[feature_option].features[i].userId \notin users =>
                  i \notin Range(recon[feature_option].toAdd)
                             \cup Range(recon[feature_option].toUpdate)
    /\ \A n \in 1..Len(log) :
          /\ (log[n].call \in Edits /\ log[n].option \in People) =>
                \A f \in Range(log[n].features) : f.userId \in users
          /\ log[n].call \in GroupAdds => Range(log[n].ids) \subseteq users

C3_Witness ==
    /\ "workers" \in DOMAIN recon
    /\ \E s \in Range(src.layers.workers), d \in Range(Queried("workers")) :
          s.userId \notin users /\ d.userId = s.userId

\* A value is the OBJECTID of a feature of a source layer.
Refers(value, source_features) == \E s \in Range(source_features) : s.OBJECTID = value

\* A foreign key of a source assignment refers to a source worker or
\* dispatcher and has no entry in the mapping_oid.
Unmapped(assignment) ==
    \/ /\ assignment.workerId # None
       /\ Refers(assignment.workerId, src.layers.workers)
       /\ assignment.workerId \notin DOMAIN mapping.workers
    \/ /\ assignment.dispatcherId # None
       /\ Refers(assignment.dispatcherId, src.layers.dispatchers)
       /\ assignment.dispatcherId \notin DOMAIN mapping.dispatchers

\* C6: when a source assignment has a non-null workerId or dispatcherId with
\* no entry in the mapping_oid, the run aborts in copy_relationship and
\* writes no assignment; and every assignment a run writes has, for each
\* non-null foreign key of the source assignment, the mapped OBJECTID.
\* (Stated for the foreign keys that refer to a source worker or dispatcher.)
C6_UnmappedAborts ==
    (script = "copy_project" /\ "workers" \in DOMAIN mapping) =>
        /\ (\E a \in Range(src.layers.assignments) : Unmapped(a)) =>
              /\ pc = "aborted"
              /\ \A n \in 1..Len(log) :
                    ~(log[n].call \in Edits /\ log[n].option = "assignments")
        /\ \A n \in 1..Len(log) :
              (log[n].call \in Edits /\ log[n].option = "assignments") =>
                  \A f \in Range(log[n].features) :
                      \A a \in Range(src.layers.assignments) :
                          a.GlobalID = f.GlobalID =>
                              /\ (/\ a.workerId # None
                                  /\ Refers(a.workerId, src.layers.workers)) =>
                                    /\ a.workerId \in DOMAIN mapping.workers
                                    /\ f.workerId = mapping.workers[a.workerId]
                              /\ (/\ a.dispatcherId # None
                                  /\ Refers(a.dispatcherId, src.layers.dispatchers)) =>
                                    /\ a.dispatcherId \in DOMAIN mapping.dispatchers
                                    /\ f.dispatcherId = mapping.dispatchers[a.dispatcherId]

\* The step of main a write of the log belongs to.
StepOf(entry) ==
    IF entry.call = "updateDefinition" THEN "typedef"
    ELSE IF entry.call = "update_project" THEN "config"
    ELSE IF entry.call = "update_web_map" THEN "webmaps"
    ELSE entry.option

InSequence(rank) ==
    \A m, n \in Writes : m < n => rank[StepOf(log[m])] <= rank[StepOf(log[n])]

\* C7 as claimed: the destination-side writes of a run of copy_project come
\* in the sequence workers, dispatchers, tracks, assignments, schema/config
\* (the assignmentType field definition and the project configuration), web
\* maps.
C7_ClaimedOrder ==
    script = "copy_project" =>
        InSequence([workers |-> 1, dispatchers |-> 2, tracks |-> 3, assignments |-> 4,
                    typedef |-> 5, config |-> 5, webmaps |-> 6])

\* C7 as amended: the assignmentType field definition is written first (when
\* the source has the field), then workers, dispatchers, tracks, assignments,
\* then the project configuration, then the web maps.
C7_WriteOrder ==
    script = "copy_project" =>
        InSequence([typedef |-> 0, workers |-> 1, dispatchers |-> 2, tracks |-> 3,
                    assignments |-> 4, config |-> 5, webmaps |-> 6])

C7_Witness ==
    /\ script = "copy_project" /\ pc = "done"
    /\ \E k, m, n \in Writes :
          /\ k < m /\ m < n
          /\ log[k].call = "updateDefinition"
          /\ log[m].call \in Edits
          /\ log[n].call = "update_project"
    /\ \E m, n \in Writes :
          /\ log[m].option = "workers" /\ log[m].call \in Edits
          /\ log[n].option = "assignments" /\ log[n].call \in Edits

\* C8: copy_relationship queries the destination's workers and dispatchers
\* after every worker and dispatcher write of the run and before every
\* assignment write, what it gets is those layers as the run left them, and
\* the assignments are written only after it; so every worker or dispatcher
\* the run inserted has an entry in the mapping_oid built from the query.
C8_MapAfterSync ==
    script = "copy_project" =>
        /\ \A feature_option \in People :
              \A q \in Calls("copy_relationship.query", feature_option) :
                  /\ \A n \in Writes :
                        /\ log[n].option \in People /\ log[n].call \in Edits \cup GroupAdds
                              => n < q
                        /\ log[n].option = "assignments" /\ log[n].call \in Edits
                              => q < n
                  /\ log[q].features = dst.layers[feature_option]
                  /\ feature_option \in DOMAIN recon
                  /\ \A i \in Range(recon[feature_option].toAdd) :
                        LET f == recon[feature_option].features[i]
                        IN  /\ f.OBJECTID \in DOMAIN mapping[feature_option]
                            /\ \E d \in Range(dst.layers[feature_option]) :
                                  /\ d.userId = f.userId
                                  /\ d.OBJECTID = mapping[feature_option][f.OBJECTID]
        /\ (\E n \in Writes : log[n].option = "assignments" /\ log[n].call \in Edits) =>
              /\ Calls("copy_relationship.query", "workers") # {}
              /\ Calls("copy_relationship.query", "dispatchers") # {}

C8_Witness ==
    /\ script = "copy_project" /\ pc = "done"
    /\ Calls("edit_adds", "workers") # {}
    /\ Calls("edit_adds", "assignments") # {}
    /\ \E a \in Range(src.layers.assignments), f \in Range(recon.workers.features) :
          a.workerId = f.OBJECTID /\ a.workerId \in DOMAIN mapping.workers

\* C9: when copy_project is run again on the same source and the destination
\* the first run left, every filter of the second run returns an empty toAdd
\* and a toUpdate with every source feature that passes the existence check,
\* and the second run inserts nothing and adds nobody to the group.
C9_SecondRunUpdatesOnly ==
    (script = "copy_project" /\ run = "second") =>
        /\ \A feature_option \in DOMAIN recon :
              /\ recon[feature_option].toAdd = <<>>
              /\ Range(recon[feature_option].toUpdate) = Passed(feature_option)
        /\ \A n \in 1..Len(log) : log[n].call \notin {"edit_adds"} \cup GroupAdds

C9_Witness ==
    /\ script = "copy_project" /\ run = "second" /\ pc = "done"
    /\ DOMAIN recon = FeatureOptions
    /\ recon.workers.toUpdate # <<>>
    /\ recon.assignments.toUpdate # <<>>

\* C10 as claimed: after write_to_destination for workers or dispatchers,
\* the user of every feature it matched (toUpdate) or inserted (toAdd) is a
\* member of the destination's group.  (Stated for the runs in which no group
\* add was answered with notAdded.)
C10_ClaimedMembers ==
    (script = "copy_project" /\ \A n \in 1..Len(log) : log[n].call # "add_users_notAdded") =>
        \A feature_option \in DOMAIN recon \cap People :
            \A i \in Range(recon[feature_option].toAdd)
                        \cup Range(recon[feature_option].toUpdate) :
                recon[feature_option].features[i].userId \in group

\* C10 as amended: after write_to_destination for workers or dispatchers the
\* userIds of the inserted features, and no others, have been handed to one
\* group add, and are members when the add was accepted; the members of the
\* group are those before the run and those the accepted adds of the run
\* named, so the user of a matched feature is a member only if it was one
\* before the run or was also inserted.
C10_InsertedJoinGroup ==
    script = "copy_project" =>
        /\ \A feature_option \in DOMAIN recon \cap People :
              LET r == recon[feature_option]
                  inserted == [k \in 1..Len(r.toAdd) |-> r.features[r.toAdd[k]].userId]
                  adds == UNION {Calls(c, feature_option) : c \in GroupAdds}
              IN  /\ Cardinality(adds) = IF inserted = <<>> THEN 0 ELSE 1
                  /\ \A n \in adds : log[n].ids = inserted
                  /\ Calls("add_users", feature_option) # {} => Range(inserted) \subseteq group
        /\ group = group0 \cup UNION {Range(log[n].ids) :
                                        n \in {m \in 1..Len(log) : log[m].call = "add_users"}}

C10_Witness ==
    /\ script = "copy_project"
    /\ \E feature_option \in DOMAIN recon \cap People :
          \E i \in Range(recon[feature_option].toUpdate) :
              recon[feature_option].features[i].userId \notin group

(***************************************************************************)
(* Properties of one write (SpecWrite).                                    *)
(***************************************************************************)
Inserts == {"edit_adds", "edit_adds_rejected"}

UserIdsOf(features) == [k \in 1..Len(features) |-> features[k].userId]

\* The feature is in the layer, under whatever OBJECTID.
Holds(layer, feature) ==
    \E n \in 1..Len(layer) : [layer[n] EXCEPT !.OBJECTID = feature.OBJECTID] = feature

\* What the write does about the group, as the code has it: a group add is
\* for workers or dispatchers, comes right after the insert call of that
\* layer, and names the userIds of the features of that call, which are the
\* filter's toAdd; every insert call for workers or dispatchers is followed
\* by one; a group add that is not accepted leaves the group as it was and
\* the inserted features in the layer; a filter that returned two empty
\* lists is followed by no edit and no group add, and the layer is as queried.
GroupAddContract ==
    /\ \A k \in 1..Len(log) :
          log[k].call \in GroupAdds =>
             /\ log[k].option \in People
             /\ k > 1
             /\ log[k - 1].call \in Inserts
             /\ log[k - 1].option = log[k].option
             /\ log[k].ids = UserIdsOf(log[k - 1].features)
             /\ log[k - 1].features
                   = Objects(recon[log[k].option], recon[log[k].option].toAdd)
    /\ \A k \in 1..Len(log) :
          (log[k].call \in Inserts /\ log[k].option \in People) =>
             k < Len(log) /\ log[k + 1].call \in GroupAdds
    /\ \A k \in 1..Len(log) :
          (log[k].call = "add_users_notAdded" /\ log[k - 1].call = "edit_adds") =>
             /\ group = group0
             /\ \A f \in Range(log[k - 1].features) : Holds(dst.layers[log[k].option], f)
    /\ \A feature_option \in DOMAIN recon :
          (recon[feature_option].toAdd = <<>> /\ recon[feature_option].toUpdate = <<>>) =>
             /\ \A call \in Edits \cup GroupAdds : Calls(call, feature_option) = {}
             /\ dst.layers[feature_option] = Queried(feature_option)

\* C11 as claimed: write_to_destination (and copy_workers' main) issue the
\* group add only for workers and dispatchers, only after the insert batch of
\* that layer has succeeded, and with exactly the userIds of the toAdd
\* features; a group add that fails leaves the insert in place; two empty
\* lists are followed by no edit and no group add.
C11_GroupAddAfterSuccessfulInsert ==
    /\ GroupAddContract
    /\ \A k \in 1..Len(log) :
          log[k].call \in GroupAdds => (k > 1 /\ log[k - 1].call = "edit_adds")

\* The group was sent the userIds of features the service did not insert.
C11_RejectedInsertThenGroupAdd ==
    \E k \in 1..Len(log) :
       /\ k > 1
       /\ log[k].call = "add_users"
       /\ log[k - 1].call = "edit_adds_rejected"
       /\ \E u \in Range(log[k].ids) :
             /\ u \in group /\ u \notin group0
             /\ \A f \in Range(dst.layers[log[k].option]) : f.userId # u

(***************************************************************************)
(* Properties of the web maps (SpecWebMap, Spec).                          *)
(***************************************************************************)
\* The two URLs are the same but for http or https as their protocol.
SameButProtocol(url, other) ==
    /\ url # NoUrl /\ other # NoUrl
    /\ url[1] \in Schemes /\ other[1] \in Schemes
    /\ url[2] = other[2]

WebMaps == {"workerWebMap", "dispatcherWebMap"}

\* C12: after edit_web_map_obj the destination web map has the operational
\* layers of the source web map, in their order; a layer whose URL is that
\* of a source feature layer but for the protocol has the destination URL
\* of that same feature layer, whatever URLs the other destination layers
\* have (it is rewritten once, on the URL it had); any other layer has the
\* URL it had in the source web map.
C12_LayerUrlsRewritten ==
    pc = "done" =>
        \A w \in WebMaps :
            /\ Len(dst[w]) = Len(src[w])
            /\ \A n \in 1..Len(src[w]) :
                  /\ \A o \in FeatureOptions :
                        SameButProtocol(src[w][n], src.urls[o]) => dst[w][n] = dst.urls[o]
                  /\ (\A o \in FeatureOptions : ~SameButProtocol(src[w][n], src.urls[o]))
                        => dst[w][n] = src[w][n]

\* A layer under the other protocol than its source feature layer was
\* rewritten to a destination URL that is itself the URL of a source layer,
\* next to a layer left as it was and a layer without a URL.
C12_Witness ==
    /\ pc = "done"
    /\ \E n \in 1..Len(src.workerWebMap), o, o2 \in FeatureOptions :
          /\ SameButProtocol(src.workerWebMap[n], src.urls[o])
          /\ src.workerWebMap[n] # src.urls[o]
          /\ dst.urls[o] = src.urls[o2]
          /\ dst.urls[o2] # dst.urls[o]
          /\ dst.workerWebMap[n] = dst.urls[o]
    /\ \E n \in 1..Len(src.workerWebMap) :
          /\ src.workerWebMap[n] # NoUrl
          /\ dst.workerWebMap[n] = src.workerWebMap[n]
    /\ \E n \in 1..Len(src.dispatcherWebMap) :
          dst.dispatcherWebMap[n] # src.dispatcherWebMap[n]

(***************************************************************************)
(* Properties of the sync followed by copy_relationship (SpecSync).        *)
(***************************************************************************)
\* copy_relationship built the mapping_oid of the layer.
Mapped(feature_option) ==
    /\ script = "copy_project"
    /\ feature_option \in DOMAIN recon
    /\ Calls("copy_relationship.query", feature_option) # {}

\* C13 as claimed: for every source worker (dispatcher) that
\* filter_by_user_id put in toUpdate under the destination OBJECTID d, the
\* mapping_oid of copy_relationship sends the worker's source OBJECTID to
\* that d, also when several destination workers share the userId.
C13_MapAgreesWithReconciliation ==
    \A feature_option \in People :
        Mapped(feature_option) =>
            \A i \in Range(recon[feature_option].toUpdate) :
                /\ src.layers[feature_option][i].OBJECTID \in DOMAIN mapping[feature_option]
                /\ mapping[feature_option][src.layers[feature_option][i].OBJECTID]
                      = recon[feature_option].features[i].OBJECTID

(***************************************************************************)
(* Properties of the destination's userIds (Spec).                         *)
(***************************************************************************)
UniqueUserIds(features) ==
    \A a, b \in 1..Len(features) : a # b => features[a].userId # features[b].userId

\* C14 as claimed: when no two destination workers (dispatchers) shared a
\* userId before the run, none do after the sync of the workers
\* (dispatchers) by copy_project or after copy_workers, also when two source
\* features carry the same userId.
C14_UserIdsStayUnique ==
    \A feature_option \in People :
        (run = "first" /\ feature_option \in DOMAIN recon) =>
            (UniqueUserIds(Queried(feature_option))
                => UniqueUserIds(dst.layers[feature_option]))
====
